---------------------------- MODULE Spec2Model ----------------------------
(***************************************************************************)
(* A model of cbits/perspectivetransform.c: the 8x8 Gaussian-elimination   *)
(* solver solve_linear_system and the homography builder                   *)
(* calculate_perspective_transform, together with the storage the builder  *)
(* hands out (the static identity matrix and the malloc'ed result).        *)
(*                                                                         *)
(* Arithmetic.  A C double is modelled as an exact decimal-scaled rational *)
(* <<n, d, e>> = (n/d) * 10^e with d > 0, or as one of the three IEEE      *)
(* special values NaN = <<0,0,0>>, +Inf = <<1,0,0>>, -Inf = <<-1,0,0>>.    *)
(* The special values follow the IEEE rules the code relies on (every      *)
(* ordered comparison with NaN is false, Inf - Inf = NaN, ...).  Rounding, *)
(* overflow of finite values and the sign of zero are not modelled: finite *)
(* arithmetic is exact.                                                    *)
(***************************************************************************)
EXTENDS Integers, Sequences, FiniteSets, TLC

(***************************************************************************)
(* Numbers                                                                 *)
(***************************************************************************)
NaN  == <<0, 0, 0>>
PInf == <<1, 0, 0>>
NInf == <<-1, 0, 0>>
Zero == <<0, 1, 0>>

AbsInt(n) == IF n < 0 THEN -n ELSE n

SignInt(n) == IF n < 0 THEN -1 ELSE IF n = 0 THEN 0 ELSE 1

MinInt(a, b) == IF a < b THEN a ELSE b

RECURSIVE GCD(_, _)
GCD(a, b) == IF b = 0 THEN a ELSE GCD(b, a % b)

\* 10^k for 0 <= k <= 9 (the powers a 32-bit integer holds)
Pow10(k) == <<1, 10, 100, 1000, 10000, 100000, 1000000, 10000000,
              100000000, 1000000000>>[k + 1]

\* <<n', e'>> with n * 10^e = n' * 10^e' and 10 not dividing n' (n > 0)
RECURSIVE Strip10(_, _)
Strip10(n, e) == IF n % 10 = 0 THEN Strip10(n \div 10, e + 1) ELSE <<n, e>>

\* <<n', d', e'>> with (n/d) * 10^e = (n'/d') * 10^e' and d' prime to 10
RECURSIVE Clear10(_, _, _)
Clear10(n, d, e) ==
  IF d % 2 = 0 THEN Clear10(n * 5, d \div 2, e - 1)
  ELSE IF d % 5 = 0 THEN Clear10(n * 2, d \div 5, e - 1)
  ELSE <<n, d, e>>

\* the finite number (n/d) * 10^e, d > 0, in its one canonical form:
\* n/d in lowest terms, d prime to 10, 10 not dividing n
Norm(n, d, e) ==
  IF n = 0 THEN Zero
  ELSE LET g  == GCD(AbsInt(n), d)
           c  == Clear10(AbsInt(n) \div g, d \div g, e)
           sn == Strip10(c[1], c[3])
       IN  <<SignInt(n) * sn[1], c[2], sn[2]>>

Num(n) == Norm(n, 1, 0)

Frac(n, d) == Norm(n, d, 0)

Sci(n, e) == Norm(n, 1, e)

isnan(a) == a[2] = 0 /\ a[1] = 0

isinf(a) == a[2] = 0 /\ a[1] # 0

IsFinite(a) == a[2] # 0

Sign(a) == SignInt(a[1])

Neg(a) == <<-a[1], a[2], a[3]>>

fabs(a) == <<AbsInt(a[1]), a[2], a[3]>>

\* a * b
Mul(a, b) ==
  IF isnan(a) \/ isnan(b) THEN NaN
  ELSE IF isinf(a) \/ isinf(b)
       THEN IF Sign(a) * Sign(b) = 0 THEN NaN
            ELSE IF Sign(a) * Sign(b) > 0 THEN PInf ELSE NInf
  ELSE IF a[1] = 0 \/ b[1] = 0 THEN Zero
  ELSE LET g1 == GCD(AbsInt(a[1]), b[2])
           g2 == GCD(AbsInt(b[1]), a[2])
       IN  Norm((a[1] \div g1) * (b[1] \div g2),
                (a[2] \div g2) * (b[2] \div g1), a[3] + b[3])

\* a / b
Div(a, b) ==
  IF isnan(a) \/ isnan(b) THEN NaN
  ELSE IF isinf(a)
       THEN IF isinf(b) THEN NaN
            ELSE IF Sign(a) * Sign(b) < 0 THEN NInf ELSE PInf
  ELSE IF isinf(b) THEN Zero
  ELSE IF b[1] = 0
       THEN IF a[1] = 0 THEN NaN ELSE IF a[1] > 0 THEN PInf ELSE NInf
  ELSE Mul(a, <<SignInt(b[1]) * b[2], AbsInt(b[1]), -b[3]>>)

\* a + b
Add(a, b) ==
  IF isnan(a) \/ isnan(b) THEN NaN
  ELSE IF isinf(a)
       THEN IF isinf(b) /\ Sign(a) # Sign(b) THEN NaN ELSE a
  ELSE IF isinf(b) THEN b
  ELSE IF a[1] = 0 THEN b
  ELSE IF b[1] = 0 THEN a
  ELSE LET e  == MinInt(a[3], b[3])
           g  == GCD(a[2], b[2])
           na == a[1] * Pow10(a[3] - e) * (b[2] \div g)
           nb == b[1] * Pow10(b[3] - e) * (a[2] \div g)
       IN  Norm(na + nb, (a[2] \div g) * b[2], e)

Sub(a, b) == Add(a, Neg(b))

\* -1, 0, 1 as P * 10^k is below, equal to or above Q (P, Q >= 0, k >= 0)
CmpScaled(P, k, Q) ==
  IF P = 0 THEN (IF Q = 0 THEN 0 ELSE -1)
  ELSE IF k > 9 THEN 1
  ELSE IF P > Q \div Pow10(k) THEN 1
  ELSE IF P = Q \div Pow10(k) /\ Q % Pow10(k) = 0 THEN 0
  ELSE -1

\* -1, 0, 1 as a is below, equal to or above b (a, b finite and >= 0)
CmpMag(a, b) ==
  LET P == a[1] * b[2]
      Q == b[1] * a[2]
      k == a[3] - b[3]
  IN  IF k >= 0 THEN CmpScaled(P, k, Q) ELSE -CmpScaled(Q, -k, P)

\* -1, 0, 1 as a is below, equal to or above b (neither is NaN)
Cmp(a, b) ==
  IF isinf(a) \/ isinf(b)
  THEN (IF a = b THEN 0
        ELSE IF a = NInf \/ b = PInf THEN -1 ELSE 1)
  ELSE IF Sign(a) # Sign(b) THEN (IF Sign(a) < Sign(b) THEN -1 ELSE 1)
  ELSE IF Sign(a) >= 0 THEN CmpMag(a, b)
  ELSE -CmpMag(fabs(a), fabs(b))

\* the C comparisons: false whenever an operand is NaN
Lt(a, b) == ~isnan(a) /\ ~isnan(b) /\ Cmp(a, b) < 0

Gt(a, b) == ~isnan(a) /\ ~isnan(b) /\ Cmp(a, b) > 0

Ge(a, b) == ~isnan(a) /\ ~isnan(b) /\ Cmp(a, b) >= 0

NumEq(a, b) == ~isnan(a) /\ ~isnan(b) /\ Cmp(a, b) = 0

One == Num(1)

(***************************************************************************)
(* Arrays.  The C arrays are 0-based; a model matrix is a tuple of rows, a *)
(* row a tuple of numbers, and At/VAt take the C indices.  Rows and        *)
(* matrices are built as explicit tuples so that every entry is computed   *)
(* once.                                                                   *)
(***************************************************************************)
n == 8

epsilon == Sci(1, -10)

Tuple8(F(_)) == <<F(0), F(1), F(2), F(3), F(4), F(5), F(6), F(7)>>

Tuple9(F(_)) == <<F(0), F(1), F(2), F(3), F(4), F(5), F(6), F(7), F(8)>>

At(m, i, j) == m[i + 1][j + 1]

VAt(v, i) == v[i + 1]

ZeroVec == Tuple8(LAMBDA i : Zero)

ZeroMatrix == Tuple8(LAMBDA i : ZeroVec)

\* v with v[i] = val
VSet(v, i, val) == Tuple8(LAMBDA k : IF k = i THEN val ELSE VAt(v, k))

(***************************************************************************)
(* solve_linear_system, one loop body per operator                         *)
(***************************************************************************)
\* the augmented matrix [A|b]; the tenth column of aug[8][10] is never
\* written nor read and is left out
Augment(Am, bv) ==
  Tuple8(LAMBDA i : Tuple9(LAMBDA j : IF j < n THEN At(Am, i, j) ELSE VAt(bv, i)))

\* the pivot search of column i from row k on: <<max_row, max_val>>
RECURSIVE PivotScan(_, _, _, _, _)
PivotScan(augm, i, k, max_row, max_val) ==
  IF k >= n THEN <<max_row, max_val>>
  ELSE IF Gt(fabs(At(augm, k, i)), max_val)
       THEN PivotScan(augm, i, k + 1, k, fabs(At(augm, k, i)))
       ELSE PivotScan(augm, i, k + 1, max_row, max_val)

FindPivot(augm, i) == PivotScan(augm, i, i + 1, i, fabs(At(augm, i, i)))

\* the singularity check on the pivot found
IsSingular(max_val) == Lt(max_val, epsilon)

\* SwapRows on the coefficient columns alone (j < n for j <= n)
SwapRowsCoefficientsOnly(augm, i, max_row) ==
  IF max_row = i THEN augm
  ELSE Tuple8(LAMBDA k :
         IF k = i
         THEN Tuple9(LAMBDA j : IF j < n THEN At(augm, max_row, j) ELSE At(augm, i, j))
         ELSE IF k = max_row
         THEN Tuple9(LAMBDA j : IF j < n THEN At(augm, i, j) ELSE At(augm, max_row, j))
         ELSE augm[k + 1])

SwapRows(augm, i, max_row) ==
  IF max_row = i THEN augm
  ELSE Tuple8(LAMBDA k : IF k = i THEN augm[max_row + 1]
                         ELSE IF k = max_row THEN augm[i + 1]
                         ELSE augm[k + 1])

\* row j after column i is eliminated from it with pivot row i
EliminatedRow(augm, i, j) ==
  LET factor == Div(At(augm, j, i), At(augm, i, i))
  IN  Tuple9(LAMBDA k : IF k >= i
                        THEN Sub(At(augm, j, k), Mul(factor, At(augm, i, k)))
                        ELSE At(augm, j, k))

\* EliminatesRow with the loop started at the pivot row (j = i for j = i + 1)
EliminatesFromPivotRow(i, j) == j >= i

\* the rows the elimination of column i rewrites: those below the pivot row
EliminatesRow(i, j) == j > i

EliminateColumn(augm, i) ==
  Tuple8(LAMBDA j : IF EliminatesRow(i, j) THEN EliminatedRow(augm, i, j)
                    ELSE augm[j + 1])

\* the check before row i is back-substituted
IsZeroPivot(augm, i) == Lt(fabs(At(augm, i, i)), epsilon)

\* aug[i][n] - aug[i][i+1]*x[i+1] - ... - aug[i][n-1]*x[n-1], from term j on
RECURSIVE BackSum(_, _, _, _, _)
BackSum(augm, xv, i, j, acc) ==
  IF j >= n THEN acc
  ELSE BackSum(augm, xv, i, j + 1, Sub(acc, Mul(At(augm, i, j), VAt(xv, j))))

\* the value back-substitution stores in x[i]
BackSubstitute(augm, xv, i) ==
  Div(BackSum(augm, xv, i, i + 1, At(augm, i, n)), At(augm, i, i))

\* the check on each x[i] computed
IsInvalidResult(v) == isnan(v) \/ isinf(v)

(***************************************************************************)
(* calculate_perspective_transform: the pure parts                         *)
(***************************************************************************)
\* Corners: <<tl_x, tl_y, tr_x, tr_y, br_x, br_y, bl_x, bl_y>>; a null
\* pointer is the empty tuple
NULL == <<>>

\* Matrix3x3: <<m00, m01, m02, m10, m11, m12, m20, m21, m22>>
IdentityMatrix == <<One, Zero, Zero, Zero, One, Zero, Zero, Zero, One>>

\* the switch on the corner index: x and y of corner i of c
CornerX(c, i) == c[2 * i + 1]

CornerY(c, i) == c[2 * i + 2]

HasNaN(c) == \E k \in 1..8 : isnan(c[k])

\* the check on the four coordinates extracted for corner i
HasInfAt(s, d, i) ==
  isinf(CornerX(s, i)) \/ isinf(CornerY(s, i)) \/
  isinf(CornerX(d, i)) \/ isinf(CornerY(d, i))

\* Coupling with the sign lost: src * dst
CouplingSameSign(srcC, dstC) == Mul(srcC, dstC)

\* the coefficient of m20 and m21 in an equation: -src * dst
Coupling(srcC, dstC) == Mul(Neg(srcC), dstC)

\* A after the two equations of corner i are written into rows i and i+4
SetupA(Am, s, d, i) ==
  LET srcX == CornerX(s, i)
      srcY == CornerY(s, i)
      dstX == CornerX(d, i)
      dstY == CornerY(d, i)
  IN  Tuple8(LAMBDA r :
        IF r = i
        THEN <<srcX, srcY, One, At(Am, r, 3), At(Am, r, 4), At(Am, r, 5),
               Coupling(srcX, dstX), Coupling(srcY, dstX)>>
        ELSE IF r = i + 4
        THEN <<At(Am, r, 0), At(Am, r, 1), At(Am, r, 2), srcX, srcY, One,
               Coupling(srcX, dstY), Coupling(srcY, dstY)>>
        ELSE Am[r + 1])

\* b after the two equations of corner i are written
SetupB(bv, d, i) ==
  Tuple8(LAMBDA r : IF r = i THEN CornerX(d, i)
                    ELSE IF r = i + 4 THEN CornerY(d, i)
                    ELSE VAt(bv, r))

MaxMagnitude == Sci(1, 6)

\* the validation of the solution: some x[i] is NaN, infinite or above 1e6
IsInvalidSolution(xv) ==
  \E i \in 0..(n - 1) :
    isnan(VAt(xv, i)) \/ isinf(VAt(xv, i)) \/ Gt(fabs(VAt(xv, i)), MaxMagnitude)

\* the matrix stored into *result
ResultMatrix(xv) ==
  <<VAt(xv, 0), VAt(xv, 1), VAt(xv, 2), VAt(xv, 3), VAt(xv, 4), VAt(xv, 5),
    VAt(xv, 6), VAt(xv, 7), One>>

\* the final validation of the result matrix
IsInvalidMatrix(m) == \E k \in 1..9 : isnan(m[k]) \/ isinf(m[k])

(***************************************************************************)
(* Bounds and inputs                                                       *)
(***************************************************************************)
\* stores through returned pointers in one behaviour
MaxWrites == 1

\* corner sets are translated by 0..MaxShift along each axis
MaxShift == 1

Pts(s) == Tuple8(LAMBDA k : Num(s[k + 1]))

Scaled(c, f) == Tuple8(LAMBDA k : Mul(c[k + 1], f))

Shifted(c, dx, dy) ==
  Tuple8(LAMBDA k : Add(c[k + 1], IF k % 2 = 0 THEN Num(dx) ELSE Num(dy)))

Poisoned(c, k, v) == [c EXCEPT ![k] = v]

Square == Pts(<<0, 0, 1, 0, 1, 1, 0, 1>>)

Line == Pts(<<0, 0, 1, 0, 2, 0, 3, 0>>)

Diagonal == Pts(<<0, 0, 1, 1, 2, 2, 3, 3>>)

Wedge == Pts(<<0, 0, 1, 0, 2, 0, 0, 1>>)

Spot == Pts(<<1, 1, 1, 1, 1, 1, 1, 1>>)

Trapezoid == Pts(<<0, 0, 3, 0, 2, 1, 1, 1>>)

Slanted == Pts(<<1, 0, 2, 1, 2, 3, 1, 2>>)

Fan == Pts(<<2, 0, 1, 1, 1, 3, 2, 4>>)

Shapes == {Square, Line, Diagonal, Wedge, Spot, Trapezoid, Slanted, Fan}

Tiny == Sci(1, -6)

Million == Sci(1, 6)

Scales == {One, Num(2), Tiny, Million, Sci(2, 6)}

Specials == {NaN, PInf, NInf}

\* Square with one coordinate replaced by a special value
PoisonedSquares == {Poisoned(Square, k, v) : k \in 1..8, v \in Specials}

\* the values a caller stores
WriteVals == {Num(2)}

\* the 8x8 unit matrix with v at diagonal entry k
UnitWith(k, v) ==
  Tuple8(LAMBDA i : Tuple8(LAMBDA j : IF i # j THEN Zero
                                      ELSE IF i = k THEN v ELSE One))

\* the unit matrix with its rows in reverse order
Reversed == Tuple8(LAMBDA i : Tuple8(LAMBDA j : IF i + j = n - 1 THEN One ELSE Zero))

Ramp == Tuple8(LAMBDA i : Num(i + 1))

\* the systems a caller hands to the solver itself
DirectSystems ==
  {[A |-> UnitWith(k, v), b |-> Ramp] :
     k \in 0..(n - 1), v \in {Num(2), Zero, Sci(1, -11), NaN, PInf}}
  \cup {[A |-> Reversed, b |-> Ramp]}

(***************************************************************************)
(* State                                                                   *)
(***************************************************************************)
\* the threads that may call into the library
Threads == {1, 2}

VARIABLES
  identity,  \* the static Matrix3x3 of calculate_perspective_transform
  heap,      \* the live malloc'ed Matrix3x3 objects, by address
  nwrites,   \* stores the callers have made through returned pointers
  pc,        \* per thread: where it is
  mode,      \* per thread: "calc" inside calculate_perspective_transform,
             \*             "direct" when the caller called the solver itself
  src,       \* per thread: the argument src_corners
  dst,       \* per thread: the argument dst_corners
  A,         \* per thread: the coefficient matrix A[8][8]
  b,         \* per thread: the right-hand side b[8]
  x,         \* per thread: the solution vector x[8]
  aug,       \* per stack frame of solve_linear_system: aug[8][10]
  idx,       \* per thread: the loop counter i of the loop it is in
  sret,      \* per thread: what solve_linear_system returned (-1: nothing yet)
  slog,      \* per thread: the return statement solve_linear_system took
  result,    \* per thread: the local pointer result
  ret,       \* per thread: the pointer calculate_perspective_transform returned
  rlog       \* per thread: the return statement it took

shared == <<identity, heap, nwrites>>

args == <<src, dst>>

system == <<A, b>>

solver == <<aug, idx, sret, slog>>

outcome == <<result, ret, rlog>>

vars == <<identity, heap, nwrites, pc, mode, src, dst, A, b, x, aug, idx,
          sret, slog, result, ret, rlog>>

\* pointers to Matrix3x3
NullPtr == [kind |-> "null", addr |-> 0]

StaticPtr == [kind |-> "static", addr |-> 0]

HeapPtr(a) == [kind |-> "heap", addr |-> a]

\* the object p points to (p not null)
Deref(p) == IF p.kind = "static" THEN identity ELSE heap[p.addr]

\* the address malloc hands out: none of the live ones
FreshAddr == CHOOSE a \in 1..(Cardinality(DOMAIN heap) + 1) : a \notin DOMAIN heap

\* aug as a static array: one for all the calls
FrameShared(t) == 1

\* aug is an automatic variable: every call of the solver has its own
Frame(t) == t

\* a crash ends the process, not just the thread
Running == \A t \in Threads : pc[t] # "crashed"

Init ==
  /\ identity = IdentityMatrix
  /\ heap = <<>>
  /\ nwrites = 0
  /\ pc = [t \in Threads |-> "idle"]
  /\ mode = [t \in Threads |-> "calc"]
  /\ src = [t \in Threads |-> NULL]
  /\ dst = [t \in Threads |-> NULL]
  /\ A = [t \in Threads |-> ZeroMatrix]
  /\ b = [t \in Threads |-> ZeroVec]
  /\ x = [t \in Threads |-> ZeroVec]
  /\ aug = [t \in Threads |-> Augment(ZeroMatrix, ZeroVec)]
  /\ idx = [t \in Threads |-> 0]
  /\ sret = [t \in Threads |-> -1]
  /\ slog = [t \in Threads |-> "none"]
  /\ result = [t \in Threads |-> NullPtr]
  /\ ret = [t \in Threads |-> NullPtr]
  /\ rlog = [t \in Threads |-> "none"]

Goto(t, where) == pc' = [pc EXCEPT ![t] = where]

\* the call is over: its arguments and automatic variables are gone
Forget(t) ==
  /\ pc' = [pc EXCEPT ![t] = "idle"]
  /\ mode' = [mode EXCEPT ![t] = "calc"]
  /\ src' = [src EXCEPT ![t] = NULL]
  /\ dst' = [dst EXCEPT ![t] = NULL]
  /\ A' = [A EXCEPT ![t] = ZeroMatrix]
  /\ b' = [b EXCEPT ![t] = ZeroVec]
  /\ x' = [x EXCEPT ![t] = ZeroVec]
  /\ aug' = [aug EXCEPT ![Frame(t)] = Augment(ZeroMatrix, ZeroVec)]
  /\ idx' = [idx EXCEPT ![t] = 0]
  /\ sret' = [sret EXCEPT ![t] = -1]
  /\ slog' = [slog EXCEPT ![t] = "none"]
  /\ result' = [result EXCEPT ![t] = NullPtr]
  /\ ret' = [ret EXCEPT ![t] = NullPtr]
  /\ rlog' = [rlog EXCEPT ![t] = "none"]

\* return p from calculate_perspective_transform at the statement named
Return(t, p, stmt) ==
  /\ ret' = [ret EXCEPT ![t] = p]
  /\ rlog' = [rlog EXCEPT ![t] = stmt]
  /\ Goto(t, "returned")

\* return v from solve_linear_system at the statement named
SolverReturn(t, v, stmt) ==
  /\ sret' = [sret EXCEPT ![t] = v]
  /\ slog' = [slog EXCEPT ![t] = stmt]
  /\ Goto(t, "solved")

(***************************************************************************)
(* calculate_perspective_transform up to the call of the solver            *)
(***************************************************************************)
\* the call: the locals A, b, x are zero-initialised
Enter(t, s, d) ==
  /\ Running
  /\ pc[t] = "idle"
  /\ src' = [src EXCEPT ![t] = s]
  /\ dst' = [dst EXCEPT ![t] = d]
  /\ A' = [A EXCEPT ![t] = ZeroMatrix]
  /\ b' = [b EXCEPT ![t] = ZeroVec]
  /\ x' = [x EXCEPT ![t] = ZeroVec]
  /\ mode' = [mode EXCEPT ![t] = "calc"]
  /\ sret' = [sret EXCEPT ![t] = -1]
  /\ slog' = [slog EXCEPT ![t] = "none"]
  /\ idx' = [idx EXCEPT ![t] = 0]
  /\ result' = [result EXCEPT ![t] = NullPtr]
  /\ ret' = [ret EXCEPT ![t] = NullPtr]
  /\ rlog' = [rlog EXCEPT ![t] = "none"]
  /\ Goto(t, "entered")
  /\ UNCHANGED <<shared, aug>>

\* the null check and the NaN check
CheckArgs(t) ==
  /\ Running
  /\ pc[t] = "entered"
  /\ IF src[t] = NULL \/ dst[t] = NULL
     THEN Return(t, StaticPtr, "null")
     ELSE IF HasNaN(src[t]) \/ HasNaN(dst[t])
          THEN Return(t, StaticPtr, "nan")
          ELSE Goto(t, "setup") /\ UNCHANGED <<ret, rlog>>
  /\ UNCHANGED <<shared, mode, args, system, x, solver, result>>

\* one iteration of the setup loop: corner idx
SetupCorner(t) ==
  /\ Running
  /\ pc[t] = "setup"
  /\ IF HasInfAt(src[t], dst[t], idx[t])
     THEN /\ Return(t, StaticPtr, "inf")
          /\ UNCHANGED <<system, idx>>
     ELSE /\ A' = [A EXCEPT ![t] = SetupA(A[t], src[t], dst[t], idx[t])]
          /\ b' = [b EXCEPT ![t] = SetupB(b[t], dst[t], idx[t])]
          /\ idx' = [idx EXCEPT ![t] = idx[t] + 1]
          /\ Goto(t, IF idx[t] = 3 THEN "solve" ELSE "setup")
          /\ UNCHANGED <<ret, rlog>>
  /\ UNCHANGED <<shared, mode, args, x, aug, sret, slog, result>>

(***************************************************************************)
(* solve_linear_system                                                     *)
(***************************************************************************)
\* a caller calls the solver itself, on a system and an answer array of its own
SolveDirect(t, sys) ==
  /\ Running
  /\ pc[t] = "idle"
  /\ A' = [A EXCEPT ![t] = sys.A]
  /\ b' = [b EXCEPT ![t] = sys.b]
  /\ x' = [x EXCEPT ![t] = ZeroVec]
  /\ mode' = [mode EXCEPT ![t] = "direct"]
  /\ sret' = [sret EXCEPT ![t] = -1]
  /\ slog' = [slog EXCEPT ![t] = "none"]
  /\ idx' = [idx EXCEPT ![t] = 0]
  /\ Goto(t, "solve")
  /\ UNCHANGED <<shared, args, aug, outcome>>

\* entry: the augmented matrix is filled
SolveBegin(t) ==
  /\ Running
  /\ pc[t] = "solve"
  /\ aug' = [aug EXCEPT ![Frame(t)] = Augment(A[t], b[t])]
  /\ idx' = [idx EXCEPT ![t] = 0]
  /\ Goto(t, "elim")
  /\ UNCHANGED <<shared, mode, args, system, x, sret, slog, outcome>>

\* one iteration of the elimination loop: pivot column idx
PivotStep(t) ==
  /\ Running
  /\ pc[t] = "elim"
  /\ LET i == idx[t]
         p == FindPivot(aug[Frame(t)], i)
     IN  IF IsSingular(p[2])
         THEN /\ SolverReturn(t, 0, "singular")
              /\ UNCHANGED <<aug, idx>>
         ELSE /\ aug' = [aug EXCEPT ![Frame(t)] =
                           EliminateColumn(SwapRows(aug[Frame(t)], i, p[1]), i)]
              /\ idx' = [idx EXCEPT ![t] = IF i = n - 1 THEN n - 1 ELSE i + 1]
              /\ Goto(t, IF i = n - 1 THEN "back" ELSE "elim")
              /\ UNCHANGED <<sret, slog>>
  /\ UNCHANGED <<shared, mode, args, system, x, outcome>>

\* one iteration of the back-substitution loop: row idx
BackStep(t) ==
  /\ Running
  /\ pc[t] = "back"
  /\ LET i == idx[t]
         v == BackSubstitute(aug[Frame(t)], x[t], i)
     IN  IF IsZeroPivot(aug[Frame(t)], i)
         THEN /\ SolverReturn(t, 0, "zero_pivot")
              /\ UNCHANGED <<x, idx>>
         ELSE /\ x' = [x EXCEPT ![t] = VSet(x[t], i, v)]
              /\ IF IsInvalidResult(v)
                 THEN SolverReturn(t, 0, "invalid") /\ UNCHANGED idx
                 ELSE IF i = 0
                      THEN SolverReturn(t, 1, "ok") /\ UNCHANGED idx
                      ELSE /\ idx' = [idx EXCEPT ![t] = i - 1]
                           /\ UNCHANGED <<pc, sret, slog>>
  /\ UNCHANGED <<shared, mode, args, system, aug, outcome>>

\* the solver returns to the caller that called it itself
DirectDone(t) ==
  /\ Running
  /\ pc[t] = "solved"
  /\ mode[t] = "direct"
  /\ Forget(t)
  /\ UNCHANGED shared

(***************************************************************************)
(* calculate_perspective_transform after the solver                        *)
(***************************************************************************)
\* the test of the solver's return value and the validation of x
CheckSolution(t) ==
  /\ Running
  /\ pc[t] = "solved"
  /\ mode[t] = "calc"
  /\ IF sret[t] = 0
     THEN Return(t, StaticPtr, "solve_failed")
     ELSE IF IsInvalidSolution(x[t])
          THEN Return(t, StaticPtr, "invalid_solution")
          ELSE Goto(t, "alloc") /\ UNCHANGED <<ret, rlog>>
  /\ UNCHANGED <<shared, mode, args, system, x, solver, result>>

\* malloc succeeds and the result is stored
AllocOk(t) ==
  /\ Running
  /\ pc[t] = "alloc"
  /\ LET a == FreshAddr
     IN  /\ heap' = [c \in DOMAIN heap \cup {a} |->
                       IF c = a THEN ResultMatrix(x[t]) ELSE heap[c]]
         /\ result' = [result EXCEPT ![t] = HeapPtr(a)]
  /\ Goto(t, "final")
  /\ UNCHANGED <<identity, nwrites, mode, args, system, x, solver, ret, rlog>>

\* what a store through a null pointer may do
NullStoreOutcomes == {"crash", "continue"}

\* malloc returns NULL: the unchecked store through it is undefined, the
\* process is killed or the build carries on with result == NULL
AllocFail(t, ub) ==
  /\ Running
  /\ pc[t] = "alloc"
  /\ IF ub = "crash"
     THEN Goto(t, "crashed") /\ UNCHANGED <<ret, rlog>>
     ELSE Return(t, NullPtr, "ok")
  /\ UNCHANGED <<shared, mode, args, system, x, solver, result>>

\* the final validation and the return of result
FinalCheck(t) ==
  /\ Running
  /\ pc[t] = "final"
  /\ IF IsInvalidMatrix(heap[result[t].addr])
     THEN Return(t, StaticPtr, "invalid_result")
     ELSE Return(t, result[t], "ok")
  /\ UNCHANGED <<shared, mode, args, system, x, solver, result>>

(***************************************************************************)
(* The caller, holding the pointer returned                                *)
(***************************************************************************)
\* the caller reads the matrix
CallerRead(t) ==
  /\ Running
  /\ pc[t] = "returned"
  /\ ret[t] # NullPtr
  /\ Goto(t, "using")
  /\ UNCHANGED <<shared, mode, args, system, x, solver, outcome>>

\* the caller stores v into entry k of the matrix: the pointer returned is
\* a plain Matrix3x3 *, whichever object it points to
CallerWrite(t, k, v) ==
  /\ Running
  /\ pc[t] \in {"returned", "using"}
  /\ ret[t] # NullPtr
  /\ nwrites < MaxWrites
  /\ IF ret[t].kind = "static"
     THEN /\ identity' = [identity EXCEPT ![k] = v]
          /\ UNCHANGED heap
     ELSE /\ heap' = [heap EXCEPT ![ret[t].addr][k] = v]
          /\ UNCHANGED identity
  /\ nwrites' = nwrites + 1
  /\ Goto(t, "using")
  /\ UNCHANGED <<mode, args, system, x, solver, outcome>>

\* the caller is done with the matrix and frees it if it is a malloc'ed one
Release(t) ==
  /\ Running
  /\ pc[t] \in {"returned", "using"}
  /\ heap' = IF ret[t].kind = "heap"
             THEN [c \in DOMAIN heap \ {ret[t].addr} |-> heap[c]]
             ELSE heap
  /\ Forget(t)
  /\ UNCHANGED <<identity, nwrites>>

(***************************************************************************)
(* Specifications                                                          *)
(***************************************************************************)
\* Spec: one thread and its caller, over the whole life of the pointers
LifeSrc == {NULL, Square, Line, Scaled(Square, Tiny)} \cup PoisonedSquares

LifeDst == {NULL, Square, Scaled(Square, Num(2)), Scaled(Square, Tiny)}
           \cup PoisonedSquares

Next ==
  \/ \E s \in LifeSrc, d \in LifeDst : Enter(1, s, d)
  \/ CheckArgs(1)
  \/ SetupCorner(1)
  \/ SolveBegin(1)
  \/ PivotStep(1)
  \/ BackStep(1)
  \/ CheckSolution(1)
  \/ AllocOk(1)
  \/ \E ub \in NullStoreOutcomes : AllocFail(1, ub)
  \/ FinalCheck(1)
  \/ CallerRead(1)
  \/ \E k \in 1..9, v \in WriteVals : CallerWrite(1, k, v)
  \/ Release(1)

Spec == Init /\ [][Next]_vars

\* SpecSweep: one thread, calls over a wide range of corner sets and
\* direct calls of the solver
SweepSrc ==
  {Shifted(sh, dx, dy) : sh \in Shapes, dx \in 0..MaxShift, dy \in 0..MaxShift}

SweepDst == {Scaled(sh, k) : sh \in Shapes, k \in {One, Num(2)}}

\* the unit square at every scale, to and from every scale
ExtremePairs ==
  {<<Scaled(Square, k), Scaled(Square, l)>> : k \in {One, Tiny}, l \in Scales}

SweepPairs == (SweepSrc \X SweepDst) \cup ExtremePairs

NextSweep ==
  \/ \E sd \in SweepPairs : Enter(1, sd[1], sd[2])
  \/ \E sys \in DirectSystems : SolveDirect(1, sys)
  \/ CheckArgs(1)
  \/ SetupCorner(1)
  \/ SolveBegin(1)
  \/ PivotStep(1)
  \/ BackStep(1)
  \/ DirectDone(1)
  \/ CheckSolution(1)
  \/ AllocOk(1)
  \/ \E ub \in NullStoreOutcomes : AllocFail(1, ub)
  \/ FinalCheck(1)
  \/ Release(1)

SpecSweep == Init /\ [][NextSweep]_vars

\* SpecConc: two threads calling concurrently, their steps interleaved
ConcPairs ==
  {<<NULL, Square>>, <<Square, Scaled(Square, Num(2))>>, <<Line, Square>>,
   <<Square, Trapezoid>>}

NextConc ==
  \E t \in Threads :
    \/ \E sd \in ConcPairs : Enter(t, sd[1], sd[2])
    \/ CheckArgs(t)
    \/ SetupCorner(t)
    \/ SolveBegin(t)
    \/ PivotStep(t)
    \/ BackStep(t)
    \/ CheckSolution(t)
    \/ AllocOk(t)
    \/ \E ub \in NullStoreOutcomes : AllocFail(t, ub)
    \/ FinalCheck(t)
    \/ Release(t)

SpecConc == Init /\ [][NextConc]_vars

(***************************************************************************)
(* Vocabulary of the properties                                            *)
(***************************************************************************)
AllFinite(c) == c # NULL /\ \A k \in 1..8 : IsFinite(c[k])

\* twice the signed area of the triangle of corners i, j, k of c
Cross(c, i, j, k) ==
  Sub(Mul(Sub(CornerX(c, j), CornerX(c, i)), Sub(CornerY(c, k), CornerY(c, i))),
      Mul(Sub(CornerY(c, j), CornerY(c, i)), Sub(CornerX(c, k), CornerX(c, i))))

Triples == {<<0, 1, 2>>, <<0, 1, 3>>, <<0, 2, 3>>, <<1, 2, 3>>}

NoThreeCollinear(c) == \A tr \in Triples : Cross(c, tr[1], tr[2], tr[3]) # Zero

Collinear(c) == \A tr \in Triples : Cross(c, tr[1], tr[2], tr[3]) = Zero

\* m sends corner i of s to corner i of d, after the division by w
MapsCorner(m, s, d, i) ==
  LET sx == CornerX(s, i)
      sy == CornerY(s, i)
      u  == Add(Add(Mul(m[1], sx), Mul(m[2], sy)), m[3])
      v  == Add(Add(Mul(m[4], sx), Mul(m[5], sy)), m[6])
      w  == Add(Add(Mul(m[7], sx), Mul(m[8], sy)), m[9])
  IN  /\ IsFinite(w) /\ w # Zero
      /\ Div(u, w) = CornerX(d, i)
      /\ Div(v, w) = CornerY(d, i)

Maps(m, s, d) == \A i \in 0..3 : MapsCorner(m, s, d, i)

SystemFinite(t) ==
  \A i \in 0..(n - 1) :
    IsFinite(VAt(b[t], i)) /\ \A j \in 0..(n - 1) : IsFinite(At(A[t], i, j))

\* A[i][0]*x[0] + ... + A[i][n-1]*x[n-1], from term j on
RECURSIVE RowDot(_, _, _, _)
RowDot(Am, xv, i, j) ==
  IF j >= n THEN Zero ELSE Add(Mul(At(Am, i, j), VAt(xv, j)), RowDot(Am, xv, i, j + 1))

Solves(Am, xv, bv) == \A i \in 0..(n - 1) : RowDot(Am, xv, i, 0) = VAt(bv, i)

\* the call of thread t has returned a matrix
Returned(t) == pc[t] = "returned" /\ ret[t] # NullPtr

(***************************************************************************)
(* The call run alone, as one function of its arguments                    *)
(***************************************************************************)
RECURSIVE AloneSetup(_, _, _, _, _)
AloneSetup(Am, bv, s, d, i) ==
  IF i >= 4 THEN <<Am, bv>>
  ELSE AloneSetup(SetupA(Am, s, d, i), SetupB(bv, d, i), s, d, i + 1)

RECURSIVE AloneEliminate(_, _)
AloneEliminate(augm, i) ==
  IF i >= n THEN <<1, augm>>
  ELSE LET p == FindPivot(augm, i)
       IN  IF IsSingular(p[2]) THEN <<0, augm>>
           ELSE AloneEliminate(EliminateColumn(SwapRows(augm, i, p[1]), i), i + 1)

RECURSIVE AloneBack(_, _, _)
AloneBack(augm, xv, i) ==
  IF i < 0 THEN <<1, xv>>
  ELSE IF IsZeroPivot(augm, i) THEN <<0, xv>>
  ELSE LET v == BackSubstitute(augm, xv, i)
       IN  IF IsInvalidResult(v) THEN <<0, VSet(xv, i, v)>>
           ELSE AloneBack(augm, VSet(xv, i, v), i - 1)

\* <<return value, x>> of the solver on [Am|bv]
AloneSolve(Am, bv) ==
  LET e == AloneEliminate(Augment(Am, bv), 0)
  IN  IF e[1] = 0 THEN <<0, ZeroVec>> ELSE AloneBack(e[2], ZeroVec, n - 1)

\* <<kind of the pointer, matrix>> a call alone returns on (s, d), the
\* static matrix untouched and malloc succeeding
AloneCall(s, d) ==
  IF s = NULL \/ d = NULL THEN <<"static", IdentityMatrix>>
  ELSE IF HasNaN(s) \/ HasNaN(d) THEN <<"static", IdentityMatrix>>
  ELSE IF \E i \in 0..3 : HasInfAt(s, d, i) THEN <<"static", IdentityMatrix>>
  ELSE LET sys == AloneSetup(ZeroMatrix, ZeroVec, s, d, 0)
           r   == AloneSolve(sys[1], sys[2])
       IN  IF r[1] = 0 \/ IsInvalidSolution(r[2])
           THEN <<"static", IdentityMatrix>>
           ELSE <<"heap", ResultMatrix(r[2])>>

(***************************************************************************)
(* Properties                                                              *)
(***************************************************************************)

\* C1: every matrix returned is a solved matrix (nine finite entries, the
\* eight free ones of magnitude <= 1e6, m22 = 1) or exactly the identity
\* matrix.
C1_SolvedOrIdentity ==
  \A t \in Threads :
    Returned(t) =>
      LET m == Deref(ret[t])
      IN  \/ m = IdentityMatrix
          \/ /\ ret[t].kind = "heap"
             /\ m = ResultMatrix(x[t])
             /\ \A k \in 1..9 : IsFinite(m[k])
             /\ \A k \in 1..8 : ~Gt(fabs(m[k]), MaxMagnitude)
             /\ m[9] = One

\* C2: the call never crashes and never returns a null pointer, whether
\* malloc succeeds or fails.
C2_NeverNullNeverCrash ==
  \A t \in Threads :
    /\ pc[t] # "crashed"
    /\ pc[t] = "returned" => ret[t] # NullPtr

InvalidInput(s, d) ==
  \/ s = NULL
  \/ d = NULL
  \/ \E k \in 1..8 : ~IsFinite(s[k]) \/ ~IsFinite(d[k])

\* C3: with a null corner set, a NaN coordinate or an infinite coordinate
\* the call returns exactly the identity matrix and never invokes the
\* solver.
C3_InvalidInputIdentity ==
  \A t \in Threads :
    (pc[t] = "returned" /\ mode[t] = "calc" /\ InvalidInput(src[t], dst[t])) =>
      /\ ret[t] # NullPtr
      /\ Deref(ret[t]) = IdentityMatrix
      /\ sret[t] = -1

\* C4: with four collinear source points and any finite destination set
\* the solver reports a singular system and the call returns the identity
\* matrix.
C4_CollinearIdentity ==
  \A t \in Threads :
    (/\ pc[t] = "returned" /\ mode[t] = "calc"
     /\ AllFinite(src[t]) /\ AllFinite(dst[t])
     /\ Collinear(src[t])) =>
      /\ sret[t] = 0
      /\ slog[t] = "singular"
      /\ ret[t] # NullPtr
      /\ Deref(ret[t]) = IdentityMatrix

\* the corner sets of thread t are finite, with no three corners of
\* either on a line
NonDegenerate(t) ==
  /\ AllFinite(src[t]) /\ AllFinite(dst[t])
  /\ NoThreeCollinear(src[t]) /\ NoThreeCollinear(dst[t])

\* C5 as stated: for finite corner sets with no three corners on a line
\* the matrix returned sends each source corner to its destination corner.
C5_Original ==
  \A t \in Threads :
    (Returned(t) /\ NonDegenerate(t)) => Maps(Deref(ret[t]), src[t], dst[t])

\* C5 as amended: for finite corner sets with no three corners on a line
\* the call returns either the static fallback matrix, and then the solver
\* had reported failure or a solved unknown was above 1e6 in magnitude, or
\* a malloc'ed matrix that sends each source corner to its destination
\* corner exactly, with a non-zero third coordinate.
C5_Correspondence ==
  \A t \in Threads :
    (Returned(t) /\ NonDegenerate(t)) =>
      IF ret[t].kind = "heap"
      THEN Maps(Deref(ret[t]), src[t], dst[t])
      ELSE /\ ret[t] = StaticPtr
           /\ sret[t] = 0 \/ (sret[t] = 1 /\ IsInvalidSolution(x[t]))

\* a projective (not affine) matrix was solved for and returned
C5_Witness ==
  /\ Returned(1) /\ NonDegenerate(1)
  /\ ret[1].kind = "heap"
  /\ Deref(ret[1])[7] # Zero
  /\ Maps(Deref(ret[1]), src[1], dst[1])

\* C6: calculate_perspective_transform(C, C), C finite with no three
\* corners on a line, returns a matrix that sends each corner of C to
\* itself.
C6_RoundTrip ==
  \A t \in Threads :
    (/\ Returned(t) /\ src[t] = dst[t]
     /\ AllFinite(src[t]) /\ NoThreeCollinear(src[t])) =>
      Maps(Deref(ret[t]), src[t], src[t])

\* what belongs to the call of thread t alone
Locals(t) ==
  <<src[t], dst[t], A[t], b[t], x[t], aug[Frame(t)], idx[t], sret[t],
    result[t], ret[t]>>

\* the matrix thread t was handed or is about to hand out, if malloc'ed
Owned(t) ==
  IF ret[t].kind = "heap" THEN {ret[t].addr}
  ELSE IF result[t].kind = "heap" THEN {result[t].addr} ELSE {}

\* a step of the call of thread t leaves alone the static matrix, the
\* other threads' calls and the matrices they own
Isolated(t) ==
  (pc'[t] # pc[t] \/ idx'[t] # idx[t]) =>
    /\ identity' = identity
    /\ \A u \in Threads \ {t} :
         /\ Locals(u)' = Locals(u)
         /\ \A a \in Owned(u) : a \in DOMAIN heap' /\ heap'[a] = heap[a]

\* a call that returns a matrix returns what it returns when run alone
SameAsAlone(t) ==
  Returned(t) =>
    LET alone == AloneCall(src[t], dst[t])
    IN  ret[t].kind = alone[1] /\ Deref(ret[t]) = alone[2]

\* C7: under every interleaving of the steps of concurrent calls no call
\* writes to what another call uses, and each call that returns a matrix
\* returns the one it returns when run alone on its arguments.
C7_NoInterference ==
  /\ [](\A t \in Threads : SameAsAlone(t))
  /\ [][\A t \in Threads : Isolated(t)]_vars

\* one call has returned its solved matrix while the other, on other
\* arguments, is inside back-substitution
C7_Witness ==
  /\ Returned(1) /\ ret[1].kind = "heap"
  /\ pc[2] = "back" /\ idx[2] < n - 1
  /\ src[2] = src[1] /\ dst[2] # dst[1]

\* C8: the static fallback matrix holds the identity matrix in every
\* reachable state, whatever the callers do through the pointers returned.
C8_FallbackIsIdentity == identity = IdentityMatrix

\* why solve_linear_system returned 0 to thread t
FailureCause(t) ==
  \/ /\ slog[t] = "singular"
     /\ \A k \in idx[t]..(n - 1) : Lt(fabs(At(aug[Frame(t)], k, idx[t])), epsilon)
  \/ /\ slog[t] = "zero_pivot"
     /\ Lt(fabs(At(aug[Frame(t)], idx[t], idx[t])), epsilon)
  \/ /\ slog[t] = "invalid"
     /\ ~IsFinite(VAt(x[t], idx[t]))

SolverAnswer(t) ==
  (pc[t] = "solved" /\ SystemFinite(t)) =>
    /\ sret[t] \in {0, 1}
    /\ sret[t] = 1 =>
         /\ Solves(A[t], x[t], b[t])
         /\ \A i \in 0..(n - 1) : IsFinite(VAt(x[t], i))
    /\ sret[t] = 0 => FailureCause(t)

SolverKeepsSystem(t) ==
  pc[t] \in {"solve", "elim", "back"} => (A'[t] = A[t] /\ b'[t] = b[t])

\* C9: on a system with finite entries, a return of 1 leaves in x an exact
\* solution of A*x = b with every x[i] finite; a return of 0 follows a
\* pivot column whose entries from the pivot row down are all below 1e-10
\* in magnitude, a back-substitution pivot below 1e-10 or a non-finite
\* x[i]; and the solver never writes A or b.
C9_SolverCorrect ==
  /\ [](\A t \in Threads : SolverAnswer(t))
  /\ [][\A t \in Threads : SolverKeepsSystem(t)]_vars

\* a system that needed a row exchange was solved
C9_Witness ==
  /\ pc[1] = "solved" /\ sret[1] = 1 /\ SystemFinite(1)
  /\ At(A[1], 0, 0) = Zero
  /\ Solves(A[1], x[1], b[1])
  /\ \E i \in 0..(n - 1) : VAt(x[1], i) # Zero

\* C10 as stated: once elimination has finished, every diagonal entry has
\* absolute value >= 1e-10.
C10_Original ==
  \A t \in Threads :
    pc[t] = "back" =>
      \A r \in 0..(n - 1) : Ge(fabs(At(aug[Frame(t)], r, r)), epsilon)

DiagonalKept(t) ==
  pc[t] = "back" =>
    \A r \in 0..(n - 1) :
      LET dg == At(aug[Frame(t)], r, r)
      IN  /\ ~Lt(fabs(dg), epsilon)
          /\ Ge(fabs(dg), epsilon) \/ (isnan(dg) /\ ~SystemFinite(t))

PivotRowsKept(t) ==
  pc[t] = "elim" =>
    \A r \in 0..(idx[t] - 1) : aug'[Frame(t)][r + 1] = aug[Frame(t)][r + 1]

\* C10 as amended: once elimination has finished, no diagonal entry read
\* by back-substitution is below 1e-10 in absolute value: each is >= 1e-10,
\* or is NaN when the system handed in holds a non-finite entry; the rows
\* above the pivot row are not modified by a pivot step; and the
\* zero-pivot return is never taken.
C10_ZeroPivotUnreachable ==
  /\ [](\A t \in Threads : DiagonalKept(t) /\ slog[t] # "zero_pivot")
  /\ [][\A t \in Threads : PivotRowsKept(t)]_vars

\* back-substitution has read every diagonal entry of a system whose
\* elimination exchanged rows
C10_Witness ==
  /\ pc[1] = "back" /\ idx[1] = 0
  /\ aug[Frame(1)][1] # Augment(A[1], b[1])[1]
  /\ \A r \in 0..(n - 1) : Ge(fabs(At(aug[Frame(1)], r, r)), epsilon)

=============================================================================
